---- MODULE Spec2Model ----
(***************************************************************************)
(* Hybrid retrieval of FinSightAI: the BM25 sparse index                   *)
(* (src/retrieval/bm25_retriever.py), the Milvus dense index               *)
(* (src/retrieval/milvus_client.py) and their Reciprocal Rank Fusion       *)
(* (src/retrieval/hybrid_search.py).                                       *)
(*                                                                         *)
(* Python dicts are records; a key a dict does not hold is a field the     *)
(* record does not have.  An RRF score is an exact rational: the integer   *)
(* s stands for s / RrfScale(k), so 1/(k+rank) is RrfScale(k) \div         *)
(* (k+rank) with no remainder.  IEEE rounding is not modelled.             *)
(***************************************************************************)
EXTENDS Integers, Sequences, FiniteSets, TLC

VARIABLES
    corpus,            \* BM25Retriever.corpus
    tokenized_corpus,  \* BM25Retriever.tokenized_corpus
    metadata_list,     \* BM25Retriever.metadata_list
    bm25,              \* BM25Retriever.bm25: None, or the BM25Okapi built last
    collection,        \* the entities of the Milvus collection, in insertion order
    ingested,          \* history: the document whose text each corpus position holds
    adding,            \* per thread, the add_documents call it runs on the retriever
    documents,         \* argument of add_documents / insert / store_chunks
    texts,             \* argument of embed_texts
    batch_size,        \* argument of embed_texts
    requests,          \* the requests the call made to the embedding provider, in
                       \* order, each with the provider's response
    error,             \* the exception the call raised or caught, "none" if none
    op,                \* the call in progress or completed last
    status,            \* "idle", "called", "dense_done", "dense_blocked", "returned" or "raised"
    query,             \* argument of the search calls
    top_k,             \* argument of the search calls
    rrf_k,             \* argument k of rrf_fusion / rrf_k of search
    calls,             \* the index searches a hybrid search issued, in order
    vector_results,    \* first argument of rrf_fusion, as the caller holds it
    bm25_results,      \* second argument of rrf_fusion, as the caller holds it
    fused_results,     \* return value of rrf_fusion
    ret                \* return value of the call

indexVars == <<corpus, tokenized_corpus, metadata_list, bm25, collection, ingested, adding>>
callVars == <<op, status, query, top_k, rrf_k, calls, vector_results, bm25_results,
              fused_results, ret>>
ingestVars == <<documents, texts, batch_size, requests, error>>
vars == <<corpus, tokenized_corpus, metadata_list, bm25, collection, ingested, adding,
          op, status, query, top_k, rrf_k, calls, vector_results, bm25_results,
          fused_results, ret, documents, texts, batch_size, requests, error>>

(***************************************************************************)
(* Bounds                                                                  *)
(***************************************************************************)
MaxLen == 2       \* longest literal ranked list handed to rrf_fusion
MaxDocs == 2      \* most chunks an index holds, and the longest ingestion batch
MaxTopK == 2      \* largest top_k of a search call
MaxTexts == 4     \* longest list handed to embed_texts
MaxBatch == 3     \* largest batch_size handed to embed_texts

DefaultK == 60    \* rrf_fusion(k=60), search(rrf_k=60)
Dimension == 1024 \* create_collection(dimension=1024)
DefaultBatchSize == 64   \* embed_texts(batch_size=64)

Max(a, b) == IF a >= b THEN a ELSE b
Min(a, b) == IF a <= b THEN a ELSE b

RECURSIVE SumOver(_, _)
SumOver(f, S) ==
    IF S = {} THEN 0
    ELSE LET x == CHOOSE y \in S : TRUE IN f[x] + SumOver(f, S \ {x})

\* The largest rank a hit can have in any list of the model.
MaxRank == Max(MaxLen, MaxDocs)

\* The smoothing constants tried: the default and the smallest non-negative.
Ks == {0, DefaultK}

RECURSIVE Product(_, _, _)
Product(k, from, to) == IF from > to THEN 1 ELSE (k + from) * Product(k, from + 1, to)

\* Common denominator of every 1/(k+rank), rank in 1..MaxRank.
RrfScale(k) == Product(k, 1, MaxRank)

SeqsUpTo(S, n) == UNION {[1..m -> S] : m \in 0..n}

(***************************************************************************)
(* Chunks: process_parsed_results gives each chunk its text, the metadata  *)
(* {source, doc_index} and chunk_id = its index within its own document.   *)
(* Two documents share the passage "t1".                                   *)
(***************************************************************************)
Chunk(text, source, doc_index, chunk_id) ==
    [text |-> text,
     metadata |-> [source |-> source, doc_index |-> doc_index],
     chunk_id |-> chunk_id]

Chunks ==
    {Chunk("t1", "a.md", 0, 0), Chunk("t2", "a.md", 0, 1),
     Chunk("t1", "b.md", 1, 0), Chunk("t3", "b.md", 1, 1)}

\* A hit as MilvusClient.search formats it.
DenseHit(text, source, score) == [text |-> text, source |-> source, score |-> score]

\* A hit as BM25Retriever.search formats it.
SparseHit(text, score, metadata, rank) ==
    [text |-> text, score |-> score, metadata |-> metadata, rank |-> rank]

(***************************************************************************)
(* HybridSearcher.rrf_fusion                                               *)
(***************************************************************************)
\* 1 / (k + rank), in units of 1/RrfScale(k).
Recip(k, rank) == RrfScale(k) \div (k + rank)

\* rrf_scores and text_to_doc get each key at the same moment, so one
\* insertion-ordered sequence of [text, score, doc] models both dicts; doc is
\* the reference to the hit object, <<list name, position>>.
HasKey(d, text) == \E i \in 1..Len(d) : d[i].text = text

\* rrf_scores[text] = inc, the earlier contributions forgotten.
AccumulateOverwriting(d, text, inc, doc) ==
    IF HasKey(d, text)
    THEN [i \in 1..Len(d) |->
            IF d[i].text = text THEN [d[i] EXCEPT !.score = inc] ELSE d[i]]
    ELSE Append(d, [text |-> text, score |-> inc, doc |-> doc])

\* The same with text_to_doc[text] = doc on every hit: the last hit is kept.
AccumulateLastDoc(d, text, inc, doc) ==
    IF HasKey(d, text)
    THEN [i \in 1..Len(d) |->
            IF d[i].text = text THEN [d[i] EXCEPT !.score = @ + inc, !.doc = doc] ELSE d[i]]
    ELSE Append(d, [text |-> text, score |-> 0 + inc, doc |-> doc])

\* rrf_scores[text] = rrf_scores.get(text, 0) + inc
\* if text not in text_to_doc: text_to_doc[text] = doc
Accumulate(d, text, inc, doc) ==
    IF HasKey(d, text)
    THEN [i \in 1..Len(d) |->
            IF d[i].text = text THEN [d[i] EXCEPT !.score = @ + inc] ELSE d[i]]
    ELSE Append(d, [text |-> text, score |-> 0 + inc, doc |-> doc])

\* for rank, doc in enumerate(vector_results, start=1)
RECURSIVE VectorLoop(_, _, _, _)
VectorLoop(vr, k, rank, d) ==
    IF rank > Len(vr) THEN d
    ELSE VectorLoop(vr, k, rank + 1,
                    Accumulate(d, vr[rank].text, Recip(k, rank),
                               <<"vector_results", rank>>))

\* doc.get('rank', 1)
GetRank(doc) == IF "rank" \in DOMAIN doc THEN doc.rank ELSE 1

\* for doc in bm25_results
RECURSIVE Bm25Loop(_, _, _, _)
Bm25Loop(br, k, j, d) ==
    IF j > Len(br) THEN d
    ELSE Bm25Loop(br, k, j + 1,
                  Accumulate(d, br[j].text, Recip(k, GetRank(br[j])),
                             <<"bm25_results", j>>))

\* The same step without reverse=True: ascending.
InsertAsc(sorted, e) ==
    LET p == Cardinality({i \in 1..Len(sorted) : sorted[i].score <= e.score})
    IN SubSeq(sorted, 1, p) \o <<e>> \o SubSeq(sorted, p + 1, Len(sorted))

\* One step of Python's stable sort with reverse=True: e goes after every
\* item whose score is at least its own.
InsertDesc(sorted, e) ==
    LET p == Cardinality({i \in 1..Len(sorted) : sorted[i].score >= e.score})
    IN SubSeq(sorted, 1, p) \o <<e>> \o SubSeq(sorted, p + 1, Len(sorted))

\* sorted(rrf_scores.items(), key=lambda x: x[1], reverse=True)
RECURSIVE SortedDesc(_, _, _)
SortedDesc(items, i, sorted) ==
    IF i > Len(items) THEN sorted
    ELSE SortedDesc(items, i + 1, InsertDesc(sorted, items[i]))

\* The hit objects the caller passed, by reference.
ArgHeap(vr, br) ==
    [ref \in ({"vector_results"} \X (1..Len(vr))) \cup ({"bm25_results"} \X (1..Len(br)))
        |-> IF ref[1] = "vector_results" THEN vr[ref[2]] ELSE br[ref[2]]]

\* Without .copy() the fused entry is the caller's hit object itself.
DictAlias(ref, n) == ref

\* text_to_doc[text].copy(): the n-th fused entry is a dict of its own.
DictCopy(ref, n) == <<"fused_results", n>>

\* for text, rrf_score in sorted_texts:
\*     doc = text_to_doc[text].copy(); doc['rrf_score'] = rrf_score
\*     fused_results.append(doc)
RECURSIVE BuildLoop(_, _, _, _)
BuildLoop(sorted_texts, n, heap, fused) ==
    IF n > Len(sorted_texts) THEN [heap |-> heap, fused |-> fused]
    ELSE LET item == sorted_texts[n]
             doc == DictCopy(item.doc, n)
             copied == (doc :> heap[item.doc]) @@ heap
             written == [copied EXCEPT ![doc] = ("rrf_score" :> item.score) @@ @]
         IN BuildLoop(sorted_texts, n + 1, written, Append(fused, doc))

\* The whole call: its return value and the argument lists as they are afterwards.
rrf_fusion_run(vr, br, k) ==
    LET scored == Bm25Loop(br, k, 1, VectorLoop(vr, k, 1, <<>>))
        sorted_texts == SortedDesc(scored, 1, <<>>)
        built == BuildLoop(sorted_texts, 1, ArgHeap(vr, br), <<>>)
    IN [fused_results |-> [n \in 1..Len(built.fused) |-> built.heap[built.fused[n]]],
        vector_results |-> [i \in 1..Len(vr) |-> built.heap[<<"vector_results", i>>]],
        bm25_results |-> [j \in 1..Len(br) |-> built.heap[<<"bm25_results", j>>]]]

rrf_fusion(vr, br, k) == rrf_fusion_run(vr, br, k).fused_results

(***************************************************************************)
(* BM25Retriever                                                           *)
(***************************************************************************)
\* self.bm25 = None
None == [built |-> FALSE, docs |-> <<>>]

\* BM25Okapi(self.tokenized_corpus): the statistics cover the documents the
\* corpus held when it was built.
BM25Okapi(tokenized) == [built |-> TRUE, docs |-> tokenized]

\* list(jieba.cut(text)).  The segmenter is a library; the texts of the model
\* are words of its dictionary: t3 is the two words of t1 and t2, the empty
\* string has no token.
cut(text) ==
    CASE text = "t1" -> <<"w1">>
      [] text = "t2" -> <<"w2">>
      [] text = "t3" -> <<"w1", "w2">>
      [] OTHER -> <<>>

Occurrences(token, tokens) == Cardinality({i \in 1..Len(tokens) : tokens[i] = token})

\* self.bm25.get_scores(query_tokens): one score per document of the built
\* index, a sum over the query's tokens that grows with the token's frequency
\* in the document.  The weights of rank_bm25 are abstracted to that frequency.
get_scores(index, query_tokens) ==
    [d \in 1..Len(index.docs) |->
        SumOver([q \in 1..Len(query_tokens) |-> Occurrences(query_tokens[q], index.docs[d])],
                1..Len(query_tokens))]

\* seq[:n], n of either sign.
PySlicePrefix(seq, n) ==
    IF n >= 0 THEN SubSeq(seq, 1, Min(n, Len(seq)))
    ELSE SubSeq(seq, 1, Max(0, Len(seq) + n))

\* The same hits taken in insertion order, the scores never sorted.
RankedHitsUnsorted(index, passages, metadatas, q, k) ==
    LET scores == get_scores(index, cut(q))
        top_indices == PySlicePrefix([i \in 1..Len(scores) |-> i], k)
    IN [rank \in 1..Len(top_indices) |->
           SparseHit(passages[top_indices[rank]], scores[top_indices[rank]],
                     metadatas[top_indices[rank]], rank)]

\* The scoring part of BM25Retriever.search: query tokens, scores, the
\* top_k indices by descending score, the formatted hits.
RankedHits(index, passages, metadatas, q, k) ==
    LET query_tokens == cut(q)
        scores == get_scores(index, query_tokens)
        by_score == SortedDesc([i \in 1..Len(scores) |-> [idx |-> i, score |-> scores[i]]],
                               1, <<>>)
        top_indices == PySlicePrefix(by_score, k)
    IN [rank \in 1..Len(top_indices) |->
           SparseHit(passages[top_indices[rank].idx],
                     scores[top_indices[rank].idx],
                     metadatas[top_indices[rank].idx],
                     rank)]

\* Without the guard, self.bm25.get_scores on None raises AttributeError.
BM25SearchWithoutNoneCheck(index, passages, metadatas, q, k) ==
    IF index = None
    THEN [raised |-> TRUE, hits |-> <<>>]
    ELSE [raised |-> FALSE, hits |-> RankedHits(index, passages, metadatas, q, k)]

\* BM25Retriever.search(query, top_k), over the fields of the retriever:
\* whether it raised, and the list it returned.
BM25Search(index, passages, metadatas, q, k) ==
    IF index = None
    THEN [raised |-> FALSE, hits |-> <<>>]
    ELSE [raised |-> FALSE, hits |-> RankedHits(index, passages, metadatas, q, k)]

\* {} of doc.get('metadata', {})
EmptyDict == <<>>

\* The fields of a BM25Retriever.
Retriever(texts_, tokenized, metadatas, index, history) ==
    [corpus |-> texts_, tokenized_corpus |-> tokenized, metadata_list |-> metadatas,
     bm25 |-> index, ingested |-> history]

\* A text that is None instead of a str: jieba.cut raises AttributeError on it.
NoneText == "None"

CutRaises(text) == text = NoneText

\* The same loop with insert(0, ...) for append: the newest document first.
RECURSIVE AddLoopPrepending(_, _, _)
AddLoopPrepending(self, docs, i) ==
    IF i > Len(docs) THEN [self |-> self, error |-> "none"]
    ELSE IF "text" \notin DOMAIN docs[i] THEN [self |-> self, error |-> "KeyError"]
    ELSE IF CutRaises(docs[i].text) THEN [self |-> self, error |-> "AttributeError"]
    ELSE AddLoopPrepending(Retriever(<<docs[i].text>> \o self.corpus,
                                     <<cut(docs[i].text)>> \o self.tokenized_corpus,
                                     <<IF "metadata" \in DOMAIN docs[i]
                                       THEN docs[i].metadata ELSE EmptyDict>>
                                        \o self.metadata_list,
                                     self.bm25,
                                     <<docs[i]>> \o self.ingested),
                           docs, i + 1)

\* The loop of add_documents from document i on.  doc['text'] raises KeyError
\* on a document without the key, before anything of that document is
\* appended; jieba.cut raises after the text and the metadata were appended
\* and before the tokens are.
RECURSIVE AddLoop(_, _, _)
AddLoop(self, docs, i) ==
    IF i > Len(docs) THEN [self |-> self, error |-> "none"]
    ELSE IF "text" \notin DOMAIN docs[i] THEN [self |-> self, error |-> "KeyError"]
    ELSE LET appended == Retriever(Append(self.corpus, docs[i].text),
                                   self.tokenized_corpus,
                                   Append(self.metadata_list,
                                          IF "metadata" \in DOMAIN docs[i]
                                          THEN docs[i].metadata ELSE EmptyDict),
                                   self.bm25,
                                   Append(self.ingested, docs[i]))
         IN IF CutRaises(docs[i].text)
            THEN [self |-> appended, error |-> "AttributeError"]
            ELSE AddLoop([appended EXCEPT
                             !.tokenized_corpus = Append(@, cut(docs[i].text))],
                         docs, i + 1)

\* BM25Okapi.__init__ divides by the number of different tokens of the corpus:
\* ZeroDivisionError when no document has a token.
BM25OkapiRaises(tokenized) == \A d \in 1..Len(tokenized) : tokenized[d] = <<>>

\* BM25Retriever.add_documents(documents) on the retriever self: the
\* retriever afterwards and the exception that left the call, if any.
add_documents(self, docs) ==
    IF docs = <<>> THEN [self |-> self, error |-> "none"]
    ELSE LET looped == AddLoop(self, docs, 1)
         IN IF looped.error # "none" THEN looped
            ELSE IF BM25OkapiRaises(looped.self.tokenized_corpus)
            THEN [self |-> looped.self, error |-> "ZeroDivisionError"]
            ELSE [self |-> [looped.self EXCEPT
                               !.bm25 = BM25Okapi(looped.self.tokenized_corpus)],
                  error |-> "none"]

(***************************************************************************)
(* MilvusClient                                                            *)
(***************************************************************************)
\* item.embedding of the provider's response for one text: a vector of the
\* collection's dimension.
Embedding(text) == [of |-> text, dim |-> Dimension]

\* The embedding provider during one call: the request it fails (0: none)
\* and the input positions whose vector it returns with another length.
Provider(fail_at, off_dimension) == [fail_at |-> fail_at, off_dimension |-> off_dimension]

ProviderOk == Provider(0, {})

ProviderDown == Provider(1, {})

\* response.data of one request, one item per input in input order.
Response(provider, batch, i) ==
    [j \in 1..Len(batch) |->
        IF (i + j) \in provider.off_dimension
        THEN [of |-> batch[j], dim |-> Dimension - 1]
        ELSE Embedding(batch[j])]

\* The same loop stepping one text at a time whatever the batch size.
EmbedLoopSingleStep(txts, b, i, provider, reqs, all_embeddings) ==
    [raised |-> FALSE,
     requests |-> [r \in 1..Len(txts) |->
                     [input |-> <<txts[r]>>, ok |-> TRUE, data |-> <<Embedding(txts[r])>>]],
     vectors |-> [r \in 1..Len(txts) |-> Embedding(txts[r])]]

\* for i in range(0, len(texts), batch_size): batch = texts[i:i + batch_size];
\* embeddings.create(input=batch); all_embeddings.extend(...)
RECURSIVE EmbedLoop(_, _, _, _, _, _)
EmbedLoop(txts, b, i, provider, reqs, all_embeddings) ==
    IF i >= Len(txts)
    THEN [raised |-> FALSE, requests |-> reqs, vectors |-> all_embeddings]
    ELSE LET batch == SubSeq(txts, i + 1, Min(i + b, Len(txts)))
         IN IF provider.fail_at = Len(reqs) + 1
            THEN [raised |-> TRUE,
                  requests |-> Append(reqs, [input |-> batch, ok |-> FALSE, data |-> <<>>]),
                  vectors |-> <<>>]
            ELSE EmbedLoop(txts, b, i + b, provider,
                           Append(reqs, [input |-> batch, ok |-> TRUE,
                                         data |-> Response(provider, batch, i)]),
                           all_embeddings \o Response(provider, batch, i))

\* MilvusClient.embed_texts(texts, batch_size)
embed_texts(txts, b, provider) == EmbedLoop(txts, b, 0, provider, <<>>, <<>>)

\* One entity of MilvusClient.insert: the idx-th chunk of a batch stamped
\* base_id, with the vector zip pairs it with.
Entity(chunk, vec, base_id, idx) ==
    [id |-> base_id + idx,
     vector |-> vec,
     text |-> chunk.text,
     source |-> chunk.metadata.source,
     chunk_id |-> chunk.chunk_id]

\* self.client.insert(data=entities): the backend stores the whole batch, or
\* stores nothing and raises (when it is down, or when a vector has not the
\* collection's dimension).
BackendRejects(entities, backend_ok) ==
    \/ ~backend_ok
    \/ \E e \in 1..Len(entities) : entities[e].vector.dim # Dimension

\* MilvusClient.insert(chunks) on the collection coll: the collection
\* afterwards, the provider requests made and the exception that left the call.
insert(coll, chunks, provider, backend_ok, now) ==
    IF chunks = <<>> THEN [collection |-> coll, requests |-> <<>>, error |-> "none"]
    ELSE IF \E c \in 1..Len(chunks) : "text" \notin DOMAIN chunks[c]
    THEN [collection |-> coll, requests |-> <<>>, error |-> "KeyError"]
    ELSE LET embedded == embed_texts([c \in 1..Len(chunks) |-> chunks[c].text],
                                     DefaultBatchSize, provider)
             entities == [i \in 1..Min(Len(chunks), Len(embedded.vectors)) |->
                             Entity(chunks[i], embedded.vectors[i], now, i - 1)]
         IN IF embedded.raised
            THEN [collection |-> coll, requests |-> embedded.requests,
                  error |-> "OpenAIError"]
            ELSE IF BackendRejects(entities, backend_ok)
            THEN [collection |-> coll, requests |-> embedded.requests,
                  error |-> "MilvusException"]
            ELSE [collection |-> coll \o entities, requests |-> embedded.requests,
                  error |-> "none"]

\* self.client.search(data=[query_vec], limit=limit): the backend ranks the
\* entities by inner product with the query vector, an order the model leaves
\* open: any Min(limit, N) different entities, in any order.
BackendRankings(entities, limit) ==
    {r \in [1..Min(limit, Len(entities)) -> 1..Len(entities)] :
        \A i \in DOMAIN r, j \in DOMAIN r : r[i] = r[j] => i = j}

\* formatted_results of MilvusClient.search; hit['distance'] falls with the rank.
FormatHits(entities, ranking) ==
    [i \in 1..Len(ranking) |->
        DenseHit(entities[ranking[i]].text, entities[ranking[i]].source,
                 Len(entities) - i)]

(***************************************************************************)
(* Literal ranked lists for rrf_fusion                                     *)
(***************************************************************************)
LiteralDenseHits == {DenseHit(c.text, c.metadata.source, 0) : c \in Chunks}

\* Sparse hits state any rank; one literal hit comes without the 'rank' key.
LiteralSparseHits ==
    {SparseHit(c.text, 0, c.metadata, r) : c \in Chunks, r \in 1..MaxLen}
    \cup {[text |-> c.text, score |-> 0, metadata |-> c.metadata] :
             c \in {x \in Chunks : x.text = "t2"}}

\* No ingestion or embedding call is in progress.
NoIngestArgs ==
    /\ documents = <<>>
    /\ texts = <<>>
    /\ batch_size = DefaultBatchSize
    /\ requests = <<>>
    /\ error = "none"

\* The threads that may call add_documents on the retriever.
Threads == {1, 2}

\* A thread outside add_documents.
NotAdding == [pc |-> "idle", docs |-> <<>>, i |-> 0, built |-> None]

\* BM25Retriever.__init__ and an empty collection; no call is running.
IndexInit ==
    /\ adding = [t \in Threads |-> NotAdding]
    /\ corpus = <<>>
    /\ tokenized_corpus = <<>>
    /\ metadata_list = <<>>
    /\ bm25 = None
    /\ collection = <<>>
    /\ ingested = <<>>

\* A caller holds two literal lists and calls rrf_fusion(vector_results, bm25_results, k).
FusionInit ==
    /\ IndexInit
    /\ op = "rrf_fusion"
    /\ status = "called"
    /\ query = ""
    /\ top_k = 0
    /\ rrf_k \in Ks
    /\ calls = <<>>
    /\ vector_results \in SeqsUpTo(LiteralDenseHits, MaxLen)
    /\ bm25_results \in SeqsUpTo(LiteralSparseHits, MaxLen)
    /\ fused_results = <<>>
    /\ ret = <<>>
    /\ NoIngestArgs

\* The call runs to its return statement.
RrfFusionCall ==
    /\ op = "rrf_fusion"
    /\ status = "called"
    /\ LET run == rrf_fusion_run(vector_results, bm25_results, rrf_k)
       IN /\ fused_results' = run.fused_results
          /\ vector_results' = run.vector_results
          /\ bm25_results' = run.bm25_results
    /\ status' = "returned"
    /\ UNCHANGED <<op, query, top_k, rrf_k, calls, ret>>
    /\ UNCHANGED indexVars
    /\ UNCHANGED ingestVars

FusionNext == RrfFusionCall

SpecFusion == FusionInit /\ [][FusionNext]_vars

(***************************************************************************)
(* MilvusClient.embed_texts called on its own                              *)
(***************************************************************************)
EmbedInputs == SeqsUpTo({"t1", "t2", "t3"}, MaxTexts)

\* A caller holds a list of texts and calls embed_texts(texts, batch_size).
EmbedInit ==
    /\ IndexInit
    /\ op = "embed_texts"
    /\ status = "called"
    /\ query = ""
    /\ top_k = 0
    /\ rrf_k = DefaultK
    /\ calls = <<>>
    /\ vector_results = <<>>
    /\ bm25_results = <<>>
    /\ fused_results = <<>>
    /\ ret = <<>>
    /\ documents = <<>>
    /\ texts \in EmbedInputs
    /\ batch_size \in 1..MaxBatch
    /\ requests = <<>>
    /\ error = "none"

\* The call runs until it returns the vectors or a request to the provider raises.
EmbedTextsCall(provider) ==
    /\ op = "embed_texts"
    /\ status = "called"
    /\ LET out == embed_texts(texts, batch_size, provider)
       IN /\ requests' = out.requests
          /\ ret' = out.vectors
          /\ status' = IF out.raised THEN "raised" ELSE "returned"
          /\ error' = IF out.raised THEN "OpenAIError" ELSE "none"
    /\ UNCHANGED <<op, query, top_k, rrf_k, calls, vector_results, bm25_results,
                   fused_results, documents, texts, batch_size>>
    /\ UNCHANGED indexVars

EmbedNext == \E fail_at \in 0..MaxTexts : EmbedTextsCall(Provider(fail_at, {}))

SpecEmbed == EmbedInit /\ [][EmbedNext]_vars

(***************************************************************************)
(* The retrieval engine: both indexes, ingestion and the searches.  The    *)
(* program is sequential: a call starts when no call is in progress, runs  *)
(* to its return or raise, and its frame is dropped when the caller moves  *)
(* on.                                                                     *)
(***************************************************************************)
\* The chunks ingested: those of the first document.
IngestChunks == {c \in Chunks : c.metadata.doc_index = 0}

Batches == SeqsUpTo(IngestChunks, MaxDocs)

Queries == {"", "t1", "t3"}

TopKs == (0 - 1)..MaxTopK

\* int(time.time() * 1000) as the inserts of this run read it.
Timestamps == {0}

NoIngestFrame ==
    /\ documents' = <<>>
    /\ texts' = <<>>
    /\ batch_size' = DefaultBatchSize
    /\ requests' = <<>>
    /\ error' = "none"

NoCallFrame ==
    /\ query' = ""
    /\ top_k' = 0
    /\ rrf_k' = DefaultK
    /\ calls' = <<>>
    /\ vector_results' = <<>>
    /\ bm25_results' = <<>>
    /\ fused_results' = <<>>
    /\ ret' = <<>>

Init ==
    /\ IndexInit
    /\ op = "none"
    /\ status = "idle"
    /\ query = ""
    /\ top_k = 0
    /\ rrf_k = DefaultK
    /\ calls = <<>>
    /\ vector_results = <<>>
    /\ bm25_results = <<>>
    /\ fused_results = <<>>
    /\ ret = <<>>
    /\ NoIngestArgs

\* BM25Retriever.add_documents(documents)
AddDocuments(docs) ==
    /\ status = "idle"
    /\ Len(corpus) + Len(docs) <= MaxDocs
    /\ op' = "add_documents"
    /\ documents' = docs
    /\ LET out == add_documents(Retriever(corpus, tokenized_corpus, metadata_list,
                                          bm25, ingested), docs)
       IN /\ corpus' = out.self.corpus
          /\ tokenized_corpus' = out.self.tokenized_corpus
          /\ metadata_list' = out.self.metadata_list
          /\ bm25' = out.self.bm25
          /\ ingested' = out.self.ingested
          /\ error' = out.error
          /\ status' = IF out.error = "none" THEN "returned" ELSE "raised"
    /\ texts' = <<>>
    /\ batch_size' = DefaultBatchSize
    /\ requests' = <<>>
    /\ UNCHANGED <<collection, adding>>
    /\ NoCallFrame

\* MilvusClient.insert(chunks): the provider embeds the texts or fails, the
\* clock is read, the backend stores the entities or raises.
Insert(chunks, provider, backend_ok, now) ==
    /\ status = "idle"
    /\ Len(collection) + Len(chunks) <= MaxDocs
    /\ op' = "insert"
    /\ documents' = chunks
    /\ LET out == insert(collection, chunks, provider, backend_ok, now)
       IN /\ collection' = out.collection
          /\ requests' = out.requests
          /\ error' = out.error
          /\ status' = IF out.error = "none" THEN "returned" ELSE "raised"
    /\ texts' = <<>>
    /\ batch_size' = DefaultBatchSize
    /\ UNCHANGED <<corpus, tokenized_corpus, metadata_list, bm25, ingested, adding>>
    /\ NoCallFrame

\* BM25Retriever.search(query, top_k)
Bm25SearchCall(q, k) ==
    /\ status = "idle"
    /\ op' = "bm25_search"
    /\ query' = q
    /\ top_k' = k
    /\ LET out == BM25Search(bm25, corpus, metadata_list, q, k)
       IN /\ status' = IF out.raised THEN "raised" ELSE "returned"
          /\ ret' = out.hits
    /\ rrf_k' = DefaultK
    /\ calls' = <<>>
    /\ vector_results' = <<>>
    /\ bm25_results' = <<>>
    /\ fused_results' = <<>>
    /\ NoIngestFrame
    /\ UNCHANGED indexVars

\* Without the over-fetch each sub-search is asked for top_k hits only.
NoOverFetch(k) == k

\* top_k * 2, the limit of both sub-searches.
OverFetch(k) == k * 2

\* fused_results[:top_k]
TopOfFusion(fused, k) == PySlicePrefix(fused, k)

\* HybridSearcher.search(query, top_k, rrf_k=rk): the dense search (which
\* raises when the provider fails to embed the query), the sparse search, the
\* fusion and the slice.
HybridSearchCall(q, k, rk, provider_ok, ranking) ==
    /\ status = "idle"
    /\ op' = "hybrid_search"
    /\ query' = q
    /\ top_k' = k
    /\ rrf_k' = rk
    /\ documents' = <<>>
    /\ texts' = <<>>
    /\ batch_size' = DefaultBatchSize
    /\ LET embedded == embed_texts(<<q>>, DefaultBatchSize,
                                   IF provider_ok THEN ProviderOk ELSE ProviderDown)
       IN /\ requests' = embedded.requests
          /\ error' = IF embedded.raised THEN "OpenAIError" ELSE "none"
    /\ IF ~provider_ok
       THEN /\ status' = "raised"
            /\ calls' = <<[index |-> "dense", limit |-> OverFetch(k)]>>
            /\ vector_results' = <<>>
            /\ bm25_results' = <<>>
            /\ fused_results' = <<>>
            /\ ret' = <<>>
       ELSE LET dense == FormatHits(collection, ranking)
                sparse == BM25Search(bm25, corpus, metadata_list, q, OverFetch(k))
                run == rrf_fusion_run(dense, sparse.hits, rk)
            IN /\ calls' = <<[index |-> "dense", limit |-> OverFetch(k)],
                             [index |-> "sparse", limit |-> OverFetch(k)]>>
               /\ IF sparse.raised
                  THEN /\ status' = "raised"
                       /\ vector_results' = dense
                       /\ bm25_results' = <<>>
                       /\ fused_results' = <<>>
                       /\ ret' = <<>>
                  ELSE /\ status' = "returned"
                       /\ vector_results' = run.vector_results
                       /\ bm25_results' = run.bm25_results
                       /\ fused_results' = run.fused_results
                       /\ ret' = TopOfFusion(run.fused_results, k)
    /\ UNCHANGED indexVars

\* The caller moves on: the frame of the finished call is dropped.
Return ==
    /\ status \in {"returned", "raised"}
    /\ op' = "none"
    /\ status' = "idle"
    /\ NoCallFrame
    /\ NoIngestFrame
    /\ UNCHANGED indexVars

Next ==
    \/ \E docs \in Batches : AddDocuments(docs)
    \/ \E chunks \in Batches, provider \in {ProviderOk, ProviderDown}, now \in Timestamps :
          Insert(chunks, provider, TRUE, now)
    \/ \E q \in Queries, k \in TopKs : Bm25SearchCall(q, k)
    \/ \E q \in Queries, k \in 1..MaxTopK, rk \in Ks :
          \E ranking \in BackendRankings(collection, OverFetch(k)) :
              HybridSearchCall(q, k, rk, TRUE, ranking)
    \/ \E q \in Queries, k \in 1..MaxTopK, rk \in Ks :
          HybridSearchCall(q, k, rk, FALSE, <<>>)
    \/ Return

Spec == Init /\ [][Next]_vars

(***************************************************************************)
(* Ingestion on its own: documents as any caller may hand them over, a     *)
(* provider and a backend that may fail.                                   *)
(***************************************************************************)
\* A document without the 'text' key.
NoTextDoc == [metadata |-> [source |-> "a.md", doc_index |-> 0], chunk_id |-> 2]

\* The second chunks of the two documents (both have chunk_id 1), a chunk
\* with empty text, a chunk whose text is None and a document without text.
RawDocuments ==
    {Chunk("t2", "a.md", 0, 1), Chunk("t3", "b.md", 1, 1), Chunk("", "a.md", 0, 3),
     Chunk(NoneText, "a.md", 0, 4), NoTextDoc}

RawBatches == SeqsUpTo(RawDocuments, MaxDocs)

\* The batches handed to the dense index: no chunk with an empty or None text.
DenseBatches ==
    SeqsUpTo({d \in RawDocuments : "text" \in DOMAIN d => d.text \notin {"", NoneText}},
             MaxDocs)

\* What the provider may do during an insert of n chunks: fail, or answer
\* with at most one vector of another length.
Providers(n) == {ProviderDown, ProviderOk} \cup {Provider(0, {j}) : j \in 1..n}

\* store_chunks without its try/except: what insert raises leaves the call.
StoreChunksWithoutTry(chunks, provider, backend_ok, now) ==
    /\ status = "idle"
    /\ Len(collection) + Len(chunks) <= MaxDocs
    /\ op' = "store_chunks"
    /\ status' = IF chunks # <<>> /\ insert(collection, chunks, provider, backend_ok, now).error # "none"
                 THEN "raised" ELSE "returned"
    /\ documents' = chunks
    /\ IF chunks = <<>>
       THEN /\ ret' = FALSE
            /\ requests' = <<>>
            /\ error' = "none"
            /\ UNCHANGED collection
       ELSE LET out == insert(collection, chunks, provider, backend_ok, now)
            IN /\ collection' = out.collection
               /\ requests' = out.requests
               /\ error' = out.error
               /\ ret' = (out.error = "none")
    /\ texts' = <<>>
    /\ batch_size' = DefaultBatchSize
    /\ query' = ""
    /\ top_k' = 0
    /\ rrf_k' = DefaultK
    /\ calls' = <<>>
    /\ vector_results' = <<>>
    /\ bm25_results' = <<>>
    /\ fused_results' = <<>>
    /\ UNCHANGED <<corpus, tokenized_corpus, metadata_list, bm25, ingested, adding>>

\* VectorStore.store_chunks(chunks): False for no chunks, True when insert
\* returned, False when insert raised anything.
StoreChunks(chunks, provider, backend_ok, now) ==
    /\ status = "idle"
    /\ Len(collection) + Len(chunks) <= MaxDocs
    /\ op' = "store_chunks"
    /\ status' = "returned"
    /\ documents' = chunks
    /\ IF chunks = <<>>
       THEN /\ ret' = FALSE
            /\ requests' = <<>>
            /\ error' = "none"
            /\ UNCHANGED collection
       ELSE LET out == insert(collection, chunks, provider, backend_ok, now)
            IN /\ collection' = out.collection
               /\ requests' = out.requests
               /\ error' = out.error
               /\ ret' = (out.error = "none")
    /\ texts' = <<>>
    /\ batch_size' = DefaultBatchSize
    /\ query' = ""
    /\ top_k' = 0
    /\ rrf_k' = DefaultK
    /\ calls' = <<>>
    /\ vector_results' = <<>>
    /\ bm25_results' = <<>>
    /\ fused_results' = <<>>
    /\ UNCHANGED <<corpus, tokenized_corpus, metadata_list, bm25, ingested, adding>>

IngestNext ==
    \/ \E docs \in RawBatches : AddDocuments(docs)
    \/ \E chunks \in DenseBatches, backend_ok \in BOOLEAN, now \in Timestamps :
          \E provider \in Providers(Len(chunks)) : Insert(chunks, provider, backend_ok, now)
    \/ \E chunks \in DenseBatches, backend_ok \in BOOLEAN, now \in Timestamps :
          \E provider \in Providers(Len(chunks)) : StoreChunks(chunks, provider, backend_ok, now)
    \/ \E q \in Queries, k \in TopKs : Bm25SearchCall(q, k)
    \/ Return

SpecIngest == Init /\ [][IngestNext]_vars

(***************************************************************************)
(* A hybrid search on one thread while another thread ingests.  Nothing    *)
(* in the code locks an index, so the ingesting calls may run before,      *)
(* between and after the two index searches of HybridSearcher.search.      *)
(***************************************************************************)
\* The first half of HybridSearcher.search: the dense search has answered.
QueryDense(q, k, rk, ranking) ==
    /\ status = "idle"
    /\ op' = "hybrid_search"
    /\ status' = "dense_done"
    /\ query' = q
    /\ top_k' = k
    /\ rrf_k' = rk
    /\ calls' = <<[index |-> "dense", limit |-> OverFetch(k)]>>
    /\ vector_results' = FormatHits(collection, ranking)
    /\ bm25_results' = <<>>
    /\ fused_results' = <<>>
    /\ ret' = <<>>
    /\ documents' = <<>>
    /\ texts' = <<>>
    /\ batch_size' = DefaultBatchSize
    /\ requests' = embed_texts(<<q>>, DefaultBatchSize, ProviderOk).requests
    /\ error' = "none"
    /\ UNCHANGED indexVars

\* The second half: the sparse search, the fusion and the slice.
QuerySparse ==
    /\ op = "hybrid_search"
    /\ status = "dense_done"
    /\ LET sparse == BM25Search(bm25, corpus, metadata_list, query, OverFetch(top_k))
           run == rrf_fusion_run(vector_results, sparse.hits, rrf_k)
       IN /\ calls' = Append(calls, [index |-> "sparse", limit |-> OverFetch(top_k)])
          /\ vector_results' = run.vector_results
          /\ bm25_results' = run.bm25_results
          /\ fused_results' = run.fused_results
          /\ ret' = TopOfFusion(run.fused_results, top_k)
    /\ status' = "returned"
    /\ UNCHANGED <<op, query, top_k, rrf_k>>
    /\ UNCHANGED ingestVars
    /\ UNCHANGED indexVars

\* BM25Retriever.add_documents(documents) run by the ingesting thread.
ConcurrentAddDocuments(docs) ==
    /\ Len(corpus) + Len(docs) <= MaxDocs
    /\ LET out == add_documents(Retriever(corpus, tokenized_corpus, metadata_list,
                                          bm25, ingested), docs)
       IN /\ corpus' = out.self.corpus
          /\ tokenized_corpus' = out.self.tokenized_corpus
          /\ metadata_list' = out.self.metadata_list
          /\ bm25' = out.self.bm25
          /\ ingested' = out.self.ingested
    /\ UNCHANGED <<collection, adding>>
    /\ UNCHANGED callVars
    /\ UNCHANGED ingestVars

\* VectorStore.store_chunks(chunks) run by the ingesting thread.
ConcurrentStoreChunks(chunks, now) ==
    /\ Len(collection) + Len(chunks) <= MaxDocs
    /\ collection' = insert(collection, chunks, ProviderOk, TRUE, now).collection
    /\ UNCHANGED <<corpus, tokenized_corpus, metadata_list, bm25, ingested, adding>>
    /\ UNCHANGED callVars
    /\ UNCHANGED ingestVars

ConcurrentNext ==
    \/ \E q \in Queries, k \in 1..MaxTopK :
          \E ranking \in BackendRankings(collection, OverFetch(k)) :
              QueryDense(q, k, DefaultK, ranking)
    \/ QuerySparse
    \/ Return
    \/ \E docs \in Batches \ {<<>>} : ConcurrentAddDocuments(docs)
    \/ \E chunks \in Batches \ {<<>>}, now \in Timestamps : ConcurrentStoreChunks(chunks, now)

SpecConcurrent == Init /\ [][ConcurrentNext]_vars

(***************************************************************************)
(* The progress of a hybrid search.  HybridSearcher.search waits for the   *)
(* dense search, then runs the sparse search in the same thread; the dense *)
(* search is a call to a backend, which answers or never does.  Every step *)
(* the querying thread can take is taken (weak fairness); a call the       *)
(* backend never answers has no step left.                                 *)
(***************************************************************************)
\* HybridSearcher.search(query, top_k, rrf_k) up to the call of
\* self.vector_store.search.
HybridSearchEnter(q, k, rk) ==
    /\ status = "idle"
    /\ op' = "hybrid_search"
    /\ status' = "called"
    /\ query' = q
    /\ top_k' = k
    /\ rrf_k' = rk
    /\ calls' = <<[index |-> "dense", limit |-> OverFetch(k)]>>
    /\ vector_results' = <<>>
    /\ bm25_results' = <<>>
    /\ fused_results' = <<>>
    /\ ret' = <<>>
    /\ documents' = <<>>
    /\ texts' = <<>>
    /\ batch_size' = DefaultBatchSize
    /\ requests' = <<>>
    /\ error' = "none"
    /\ UNCHANGED indexVars

\* The dense search answers: vector_results is assigned.
DenseCompletes(ranking) ==
    /\ op = "hybrid_search"
    /\ status = "called"
    /\ status' = "dense_done"
    /\ vector_results' = FormatHits(collection, ranking)
    /\ requests' = embed_texts(<<query>>, DefaultBatchSize, ProviderOk).requests
    /\ UNCHANGED <<op, query, top_k, rrf_k, calls, bm25_results, fused_results, ret>>
    /\ UNCHANGED <<documents, texts, batch_size, error>>
    /\ UNCHANGED indexVars

\* The dense search is sent to a backend that never answers: the thread
\* stays inside self.vector_store.search.
DenseNeverCompletes ==
    /\ op = "hybrid_search"
    /\ status = "called"
    /\ status' = "dense_blocked"
    /\ UNCHANGED <<op, query, top_k, rrf_k, calls, vector_results, bm25_results,
                   fused_results, ret>>
    /\ UNCHANGED ingestVars
    /\ UNCHANGED indexVars

LiveNext ==
    \/ \E docs \in Batches : AddDocuments(docs)
    \/ \E chunks \in Batches, now \in Timestamps : Insert(chunks, ProviderOk, TRUE, now)
    \/ \E q \in Queries, k \in 1..MaxTopK : HybridSearchEnter(q, k, DefaultK)
    \/ \E ranking \in BackendRankings(collection, OverFetch(top_k)) : DenseCompletes(ranking)
    \/ DenseNeverCompletes
    \/ QuerySparse
    \/ Return

\* The steps of the thread that runs the query, by what they do to status:
\* DenseCompletes, QuerySparse and Return.
QueryStep ==
    \/ op = "hybrid_search" /\ status = "called" /\ status' = "dense_done"
    \/ op = "hybrid_search" /\ status = "dense_done" /\ status' = "returned"
    \/ status \in {"returned", "raised"} /\ status' = "idle"

SpecLive == Init /\ [][LiveNext]_vars /\ WF_status(QueryStep)

(***************************************************************************)
(* add_documents called from several threads on one BM25Retriever, beside  *)
(* a caller that searches.  The method takes no lock, so a thread may be   *)
(* preempted between any two of its statements: every list append and the  *)
(* assignment of self.bm25 is a step of its own, and the statistics are    *)
(* computed from the tokenized corpus as it is when BM25Okapi is called.   *)
(***************************************************************************)
\* The chunks the running calls have still to append.
Pending(t) ==
    IF adding[t].pc \in {"text", "metadata", "tokens"}
    THEN Len(adding[t].docs) - adding[t].i + 1 ELSE 0

NoAddRunning == \A t \in Threads : adding[t].pc = "idle"

ThreadFrame ==
    /\ UNCHANGED callVars
    /\ UNCHANGED ingestVars

\* Thread t calls add_documents(docs) with a batch that is not empty.
AddEnter(t, docs) ==
    /\ adding[t].pc = "idle"
    /\ docs # <<>>
    /\ Len(corpus) + SumOver([u \in Threads |-> Pending(u)], Threads) + Len(docs) <= MaxDocs
    /\ adding' = [adding EXCEPT ![t] = [pc |-> "text", docs |-> docs, i |-> 1, built |-> None]]
    /\ UNCHANGED <<corpus, tokenized_corpus, metadata_list, bm25, collection, ingested>>
    /\ ThreadFrame

\* text = doc['text']; self.corpus.append(text)
AppendText(t) ==
    /\ adding[t].pc = "text"
    /\ corpus' = Append(corpus, adding[t].docs[adding[t].i].text)
    /\ ingested' = Append(ingested, adding[t].docs[adding[t].i])
    /\ adding' = [adding EXCEPT ![t].pc = "metadata"]
    /\ UNCHANGED <<tokenized_corpus, metadata_list, bm25, collection>>
    /\ ThreadFrame

\* self.metadata_list.append(doc.get('metadata', {}))
AppendMetadata(t) ==
    /\ adding[t].pc = "metadata"
    /\ metadata_list' = Append(metadata_list, adding[t].docs[adding[t].i].metadata)
    /\ adding' = [adding EXCEPT ![t].pc = "tokens"]
    /\ UNCHANGED <<corpus, tokenized_corpus, bm25, collection, ingested>>
    /\ ThreadFrame

\* tokens = list(jieba.cut(text)); self.tokenized_corpus.append(tokens); then
\* the next document of the batch, or the end of the loop.
AppendTokens(t) ==
    /\ adding[t].pc = "tokens"
    /\ tokenized_corpus' = Append(tokenized_corpus, cut(adding[t].docs[adding[t].i].text))
    /\ adding' = IF adding[t].i < Len(adding[t].docs)
                 THEN [adding EXCEPT ![t].pc = "text", ![t].i = adding[t].i + 1]
                 ELSE [adding EXCEPT ![t].pc = "build"]
    /\ UNCHANGED <<corpus, metadata_list, bm25, collection, ingested>>
    /\ ThreadFrame

\* BM25Okapi(self.tokenized_corpus): the right-hand side of line 45.
BuildIndex(t) ==
    /\ adding[t].pc = "build"
    /\ adding' = [adding EXCEPT ![t].pc = "assign",
                                ![t].built = BM25Okapi(tokenized_corpus)]
    /\ UNCHANGED <<corpus, tokenized_corpus, metadata_list, bm25, collection, ingested>>
    /\ ThreadFrame

\* self.bm25 = ...: the assignment of line 45; the call returns.
AssignIndex(t) ==
    /\ adding[t].pc = "assign"
    /\ bm25' = adding[t].built
    /\ adding' = [adding EXCEPT ![t] = NotAdding]
    /\ UNCHANGED <<corpus, tokenized_corpus, metadata_list, collection, ingested>>
    /\ ThreadFrame

ThreadsNext ==
    \/ \E t \in Threads, docs \in Batches : AddEnter(t, docs)
    \/ \E t \in Threads : AppendText(t)
    \/ \E t \in Threads : AppendMetadata(t)
    \/ \E t \in Threads : AppendTokens(t)
    \/ \E t \in Threads : BuildIndex(t)
    \/ \E t \in Threads : AssignIndex(t)
    \/ \E q \in Queries, k \in TopKs : Bm25SearchCall(q, k)
    \/ Return

SpecThreads == Init /\ [][ThreadsNext]_vars

(***************************************************************************)
(* The sparse index on its own, over chunks of both documents: the passage *)
(* t1 is a chunk of a.md and a chunk of b.md.                              *)
(***************************************************************************)
SparseChunks == {c \in Chunks : c.text \in {"t1", "t2"}}

SparseBatches == SeqsUpTo(SparseChunks, MaxDocs)

SparseNext ==
    \/ \E docs \in SparseBatches : AddDocuments(docs)
    \/ \E q \in Queries, k \in TopKs : Bm25SearchCall(q, k)
    \/ Return

SpecSparse == Init /\ [][SparseNext]_vars

(***************************************************************************)
(* Properties of rrf_fusion, checked under SpecFusion                      *)
(***************************************************************************)
FusionReturned == op = "rrf_fusion" /\ status = "returned"

\* q with q * (k + rank) = RrfScale(k): exactly 1/(k+rank) in units of 1/RrfScale(k).
ExactRecip(k, rank) == RrfScale(k) \div (k + rank)

RecipIsExact(k, rank) == ExactRecip(k, rank) * (k + rank) = RrfScale(k)

\* The rank a sparse hit states: its 'rank' field (1 when the literal hit has none).
StatedRank(hit) == IF "rank" \in DOMAIN hit THEN hit.rank ELSE 1

\* The chunk a hit stands for: its text together with the document it came from.
HitSource(hit) == IF "source" \in DOMAIN hit THEN hit.source ELSE hit.metadata.source

HitChunk(hit) == <<hit.text, HitSource(hit)>>

DenseHitsOf(text) == {i \in 1..Len(vector_results) : vector_results[i].text = text}

SparseHitsOf(text) == {j \in 1..Len(bm25_results) : bm25_results[j].text = text}

\* C1: after rrf_fusion returns, the rrf_score of every fused entry is the sum
\* of 1/(k + rank) over the hits merged into that entry (the hits carrying the
\* entry's merge key), rank being the position of a dense hit and the 'rank'
\* field of a sparse hit.
C1_ScoreIsSumOfReciprocalRanks ==
    FusionReturned =>
        \A n \in 1..Len(fused_results) :
            LET text == fused_results[n].text
                dense == [i \in DenseHitsOf(text) |-> ExactRecip(rrf_k, i)]
                sparse == [j \in SparseHitsOf(text) |->
                             ExactRecip(rrf_k, StatedRank(bm25_results[j]))]
            IN /\ \A i \in DenseHitsOf(text) : RecipIsExact(rrf_k, i)
               /\ \A j \in SparseHitsOf(text) :
                     RecipIsExact(rrf_k, StatedRank(bm25_results[j]))
               /\ fused_results[n].rrf_score
                     = SumOver(dense, DenseHitsOf(text)) + SumOver(sparse, SparseHitsOf(text))

\* C1 witness: an entry hit in both lists, at a sparse rank that is not its position.
C1_Witness ==
    /\ FusionReturned
    /\ \E n \in 1..Len(fused_results) :
          /\ DenseHitsOf(fused_results[n].text) # {}
          /\ \E j \in SparseHitsOf(fused_results[n].text) :
                "rank" \in DOMAIN bm25_results[j] /\ bm25_results[j].rank # j

InputChunks ==
    {HitChunk(vector_results[i]) : i \in 1..Len(vector_results)}
    \cup {HitChunk(bm25_results[j]) : j \in 1..Len(bm25_results)}

DensePositionsOf(chunk) ==
    {i \in 1..Len(vector_results) : HitChunk(vector_results[i]) = chunk}

SparsePositionsOf(chunk) ==
    {j \in 1..Len(bm25_results) : HitChunk(bm25_results[j]) = chunk}

\* Well-formed ranked lists: every sparse hit states its own position as its
\* rank, and no list holds a chunk twice.
ProperRankedLists ==
    /\ \A j \in 1..Len(bm25_results) :
          "rank" \in DOMAIN bm25_results[j] /\ bm25_results[j].rank = j
    /\ \A c \in InputChunks :
          Cardinality(DensePositionsOf(c)) <= 1 /\ Cardinality(SparsePositionsOf(c)) <= 1

\* C2: no fused entry stands for a chunk that is in neither list, and a fused
\* entry whose chunk is in list A only (the dense list, at rank rankA) has
\* rrf_score exactly 1/(k + rankA).  Stated for well-formed lists and the
\* default k.
C2_OnlyInAScoresOneOverKPlusRank ==
    (FusionReturned /\ ProperRankedLists /\ rrf_k = DefaultK) =>
        \A n \in 1..Len(fused_results) :
            LET chunk == HitChunk(fused_results[n])
            IN /\ chunk \in InputChunks
               /\ \A rankA \in 1..Len(vector_results) :
                     (DensePositionsOf(chunk) = {rankA} /\ SparsePositionsOf(chunk) = {})
                         => fused_results[n].rrf_score * (rrf_k + rankA) = RrfScale(rrf_k)

\* C3: two distinct chunks of the input lists that share their text are two
\* separate fused entries, each with its own source.  Stated for well-formed
\* lists and the default k.
C3_MergeKeyIsChunkNotText ==
    (FusionReturned /\ ProperRankedLists /\ rrf_k = DefaultK) =>
        \A c1 \in InputChunks, c2 \in InputChunks :
            (c1 # c2 /\ c1[1] = c2[1])
                => \E n1 \in 1..Len(fused_results), n2 \in 1..Len(fused_results) :
                      /\ n1 # n2
                      /\ HitChunk(fused_results[n1]) = c1
                      /\ HitChunk(fused_results[n2]) = c2

\* C4: the fused output holds exactly the chunks of the two input lists, each
\* once, with rrf_score non-increasing from first to last.  Stated for
\* well-formed lists and the default k.
C4_AllChunksOnceSortedDescending ==
    (FusionReturned /\ ProperRankedLists /\ rrf_k = DefaultK) =>
        /\ {HitChunk(fused_results[n]) : n \in 1..Len(fused_results)} = InputChunks
        /\ \A n \in 1..Len(fused_results), m \in 1..Len(fused_results) :
              HitChunk(fused_results[n]) = HitChunk(fused_results[m]) => n = m
        /\ \A n \in 1..Len(fused_results), m \in 1..Len(fused_results) :
              n < m => fused_results[n].rrf_score >= fused_results[m].rrf_score

\* The smallest rank at which either list holds the entry's merge key.
MinRankOf(text) ==
    LET ranks == DenseHitsOf(text)
                 \cup {StatedRank(bm25_results[j]) : j \in SparseHitsOf(text)}
    IN CHOOSE r \in ranks : \A q \in ranks : r <= q

\* C5: of two fused entries with equal rrf_score, the one with the smaller
\* minimum rank across the two lists comes first.  Stated for well-formed
\* lists in which no two hits share a text.
C5_TiesBrokenByMinimumRank ==
    (/\ FusionReturned
     /\ ProperRankedLists
     /\ \A c1 \in InputChunks, c2 \in InputChunks : c1[1] = c2[1] => c1 = c2) =>
        \A n \in 1..Len(fused_results), m \in 1..Len(fused_results) :
            (/\ fused_results[n].rrf_score = fused_results[m].rrf_score
             /\ MinRankOf(fused_results[n].text) < MinRankOf(fused_results[m].text))
                => n < m

\* The lists of the example: A = [id1, id2], B = [id2 at rank 1, id3 at rank 2],
\* the three chunks having the texts t1, t2, t3.
IsExampleInput ==
    /\ rrf_k = DefaultK
    /\ Len(vector_results) = 2
    /\ vector_results[1].text = "t1"
    /\ vector_results[2].text = "t2"
    /\ Len(bm25_results) = 2
    /\ bm25_results[1].text = "t2"
    /\ "rank" \in DOMAIN bm25_results[1] /\ bm25_results[1].rank = 1
    /\ bm25_results[2].text = "t3"
    /\ "rank" \in DOMAIN bm25_results[2] /\ bm25_results[2].rank = 2

\* C6: on the example with k = 60 the scores are id1 = 1/61,
\* id2 = 1/62 + 1/61, id3 = 1/62, and the order is id2, id1, id3.
C6_WorkedExample ==
    (FusionReturned /\ IsExampleInput) =>
        /\ RecipIsExact(DefaultK, 1) /\ RecipIsExact(DefaultK, 2)
        /\ DefaultK + 1 = 61 /\ DefaultK + 2 = 62
        /\ Len(fused_results) = 3
        /\ fused_results[1].text = "t2"
        /\ fused_results[1].rrf_score = ExactRecip(DefaultK, 2) + ExactRecip(DefaultK, 1)
        /\ fused_results[2].text = "t1"
        /\ fused_results[2].rrf_score = ExactRecip(DefaultK, 1)
        /\ fused_results[3].text = "t3"
        /\ fused_results[3].rrf_score = ExactRecip(DefaultK, 2)

\* C6 witness: rrf_fusion has returned on the example.
C6_Witness ==
    /\ FusionReturned
    /\ IsExampleInput
    /\ Len(fused_results) = 3

NoRrfScoreKey(list) == \A i \in 1..Len(list) : "rrf_score" \notin DOMAIN list[i]

\* C9: the step in which rrf_fusion runs leaves both argument lists, every hit
\* in them and the state of both indexes as they were.
C9_FusionLeavesArgumentsAndIndexes ==
    [][(op = "rrf_fusion" /\ status = "called" /\ status' = "returned")
          => /\ vector_results' = vector_results
             /\ bm25_results' = bm25_results
             /\ NoRrfScoreKey(vector_results') /\ NoRrfScoreKey(bm25_results')
             /\ UNCHANGED indexVars]_vars

\* C9 witness: the call returned entries built from hits of both lists, and
\* the lists hold no rrf_score.
C9_Witness ==
    /\ FusionReturned
    /\ \E n \in 1..Len(fused_results) : "source" \in DOMAIN fused_results[n]
    /\ \E n \in 1..Len(fused_results) : "metadata" \in DOMAIN fused_results[n]
    /\ \A n \in 1..Len(fused_results) : "rrf_score" \in DOMAIN fused_results[n]
    /\ NoRrfScoreKey(vector_results) /\ NoRrfScoreKey(bm25_results)

(***************************************************************************)
(* Properties of the searches, checked under Spec                          *)
(***************************************************************************)
HybridReturned == op = "hybrid_search" /\ status = "returned"

CallsTo(index) == {i \in 1..Len(calls) : calls[i].index = index}

\* C7: a search(query, top_k) that returns, top_k >= 1, has called the sparse
\* index once and the dense index once, each with limit 2 * top_k, has fused
\* the two lists those calls returned, and returns the first
\* min(top_k, number of fused entries) entries of the fusion in fused order.
C7_HybridSearchOverFetchesFusesTruncates ==
    HybridReturned =>
        /\ Cardinality(CallsTo("sparse")) = 1
        /\ Cardinality(CallsTo("dense")) = 1
        /\ \A i \in 1..Len(calls) : calls[i].limit = 2 * top_k
        /\ bm25_results = BM25Search(bm25, corpus, metadata_list, query, 2 * top_k).hits
        /\ \E ranking \in BackendRankings(collection, 2 * top_k) :
              vector_results = FormatHits(collection, ranking)
        /\ fused_results = rrf_fusion(vector_results, bm25_results, rrf_k)
        /\ Len(ret) = Min(top_k, Len(fused_results))
        /\ \A i \in 1..Len(ret) : ret[i] = fused_results[i]

\* C7 witness: both indexes answered and the fusion holds more than top_k entries.
C7_Witness ==
    /\ HybridReturned
    /\ vector_results # <<>>
    /\ bm25_results # <<>>
    /\ Len(fused_results) > top_k
    /\ Len(ret) = top_k

\* C10: while no document has been indexed the sparse index is not built
\* (also right after add_documents with an empty list), and a search, whatever
\* its query and top_k, returns the empty sequence without raising.
C10_SearchOnEmptyIndexIsEmpty ==
    corpus = <<>> =>
        /\ bm25 = None
        /\ op = "bm25_search" => (status = "returned" /\ ret = <<>>)

\* C10 witness: a search with a query of one token and the largest top_k
\* returned on the index no document was added to.
C10_Witness ==
    /\ op = "bm25_search"
    /\ status = "returned"
    /\ corpus = <<>>
    /\ cut(query) # <<>>
    /\ top_k = MaxTopK
    /\ ret = <<>>

Bm25Returned == op = "bm25_search" /\ status = "returned"

\* C11: a BM25Retriever.search with top_k <= 0, zero or negative, returns the
\* empty sequence, whatever the index holds.
C11_NonPositiveTopKReturnsEmpty ==
    (op = "bm25_search" /\ top_k <= 0) => (status = "returned" /\ ret = <<>>)

\* C12: on a non-empty index a search with top_k >= 1 whose query has no
\* token returns the empty sequence and does not raise.
C12_QueryWithoutTokensReturnsEmpty ==
    (op = "bm25_search" /\ corpus # <<>> /\ top_k >= 1 /\ cut(query) = <<>>)
        => (status = "returned" /\ ret = <<>>)

\* The ways to read the returned hits as documents of the corpus: hit i is
\* document pick[i], no document twice.
HitPicks ==
    {pick \in [1..Len(ret) -> 1..Len(corpus)] :
        /\ \A i \in DOMAIN pick, j \in DOMAIN pick : pick[i] = pick[j] => i = j
        /\ \A i \in DOMAIN pick :
              /\ ret[i].text = corpus[pick[i]]
              /\ ret[i].metadata = metadata_list[pick[i]]
              /\ ret[i].score = get_scores(bm25, cut(query))[pick[i]]}

\* C13: a search with top_k >= 1 on an index of N >= 1 chunks returns
\* min(top_k, N) hits, with non-increasing scores and rank fields 1, 2, ...;
\* the hits are documents of the index such that no document left out scores
\* higher than a returned one, and documents of equal score are in insertion
\* order (among the hits, and a returned one before any left out).
C13_TopKByScoreStableRanked ==
    (Bm25Returned /\ top_k >= 1 /\ corpus # <<>>) =>
        LET scores == get_scores(bm25, cut(query))
        IN /\ Len(ret) = Min(top_k, Len(corpus))
           /\ \A i \in 1..Len(ret) : ret[i].rank = i
           /\ \A i \in 1..Len(ret), j \in 1..Len(ret) :
                 i < j => ret[i].score >= ret[j].score
           /\ \E pick \in HitPicks :
                 /\ \A i \in DOMAIN pick, j \in DOMAIN pick :
                       (i < j /\ scores[pick[i]] = scores[pick[j]]) => pick[i] < pick[j]
                 /\ \A d \in (1..Len(corpus)) \ {pick[i] : i \in DOMAIN pick} :
                       \A i \in DOMAIN pick :
                           \/ scores[d] < scores[pick[i]]
                           \/ scores[d] = scores[pick[i]] /\ pick[i] < d

\* C13 witness: the index holds two different chunks, the later one scores
\* higher and was returned first, by a search that returned fewer hits than
\* the index holds.
C13_Witness ==
    /\ Bm25Returned
    /\ top_k = 1
    /\ Len(corpus) = 2
    /\ corpus[1] # corpus[2]
    /\ get_scores(bm25, cut(query))[1] < get_scores(bm25, cut(query))[2]
    /\ Len(ret) = 1
    /\ ret[1].text = corpus[2]

\* A search returned two different chunks of equal non-zero score.
C13_TieReached ==
    /\ Bm25Returned
    /\ Len(ret) = 2
    /\ ret[1].text # ret[2].text
    /\ ret[1].score = ret[2].score
    /\ ret[1].score > 0

(***************************************************************************)
(* Properties of embed_texts, checked under SpecEmbed                      *)
(***************************************************************************)
EmbedReturned == op = "embed_texts" /\ status = "returned"

\* The inputs of the requests r.. of the log, joined in order.
RECURSIVE RequestedFrom(_)
RequestedFrom(r) ==
    IF r > Len(requests) THEN <<>> ELSE requests[r].input \o RequestedFrom(r + 1)

\* C17: embed_texts(texts, batch_size) with n texts and batch_size b >= 1 that
\* returns has sent ceil(n/b) requests, each of 1..b texts, request r being
\* the slice of the texts from position (r-1)*b + 1, so that the requests
\* joined in order are the texts; it returns n vectors, the i-th being the
\* provider's embedding of the i-th text.
C17_EmbedTextsBatchesInOrder ==
    EmbedReturned =>
        LET n == Len(texts)
            b == batch_size
        IN /\ b >= 1
           /\ Len(requests) * b >= n
           /\ (Len(requests) - 1) * b < n
           /\ \A r \in 1..Len(requests) :
                 /\ Len(requests[r].input) \in 1..b
                 /\ requests[r].input = SubSeq(texts, (r - 1) * b + 1, Min(r * b, n))
           /\ RequestedFrom(1) = texts
           /\ Len(ret) = n
           /\ \A i \in 1..n : ret[i] = Embedding(texts[i])

\* C17 witness: more texts than one batch takes, the last batch not full.
C17_Witness ==
    /\ EmbedReturned
    /\ batch_size >= 2
    /\ Len(requests) >= 2
    /\ Len(requests[Len(requests)].input) < batch_size
    /\ \E i \in 1..Len(texts), j \in 1..Len(texts) : texts[i] # texts[j]
    /\ Len(ret) = Len(texts)

(***************************************************************************)
(* Properties of ingestion, checked under SpecIngest                       *)
(***************************************************************************)
\* A step in which the call named runs from its start to its return or raise.
Runs(name) == status = "idle" /\ op' = name

Malformed(doc) == "text" \notin DOMAIN doc \/ doc.text \in {"", NoneText}

WellFormed(doc) == ~Malformed(doc)

\* The document has the chunk_id of an indexed document of another text.
IdClash(doc) ==
    /\ "text" \in DOMAIN doc
    /\ \E i \in 1..Len(ingested) :
          ingested[i].chunk_id = doc.chunk_id /\ ingested[i].text # doc.text

\* What every search of the model's queries returns on the sparse index.
SearchAnswers(index, passages, metadatas) ==
    [q \in Queries, k \in 1..MaxTopK |-> BM25Search(index, passages, metadatas, q, k)]

\* C14: an add_documents of well-formed chunks, one of which has the id of an
\* indexed chunk of a different text, raises IndexingError; afterwards the
\* index holds what it held, the original chunk with its original text, and
\* every search returns what it returned before.
C14_IdClashRejectedIndexUnchanged ==
    [][(/\ Runs("add_documents")
        /\ \A d \in 1..Len(documents') : WellFormed(documents'[d])
        /\ \E d \in 1..Len(documents') : IdClash(documents'[d]))
          => /\ status' = "raised"
             /\ error' = "IndexingError"
             /\ corpus' = corpus
             /\ metadata_list' = metadata_list
             /\ SearchAnswers(bm25', corpus', metadata_list')
                   = SearchAnswers(bm25, corpus, metadata_list)]_vars

\* The chunk ids of the malformed documents of a batch, in batch order.
RejectedIds(docs) ==
    LET malformed == SelectSeq(docs, Malformed)
    IN [i \in 1..Len(malformed) |-> malformed[i].chunk_id]

\* The sparse search for the text of the corpus position i returns that position.
Searchable(i) ==
    \E h \in 1..Len(BM25Search(bm25, corpus, metadata_list, corpus[i], Len(corpus)).hits) :
        LET hit == BM25Search(bm25, corpus, metadata_list, corpus[i], Len(corpus)).hits[h]
        IN hit.text = corpus[i] /\ hit.metadata = metadata_list[i]

\* C15: an add_documents of a batch holding a malformed document (no text, or
\* empty text) and a well-formed one indexes exactly the well-formed
\* documents of the batch, in batch order, each of them searchable
\* afterwards, and hands the caller the chunk ids of the malformed ones.
C15_OnlyMalformedChunksRejected ==
    [][(/\ Runs("add_documents")
        /\ \E d \in 1..Len(documents') : Malformed(documents'[d])
        /\ \E d \in 1..Len(documents') : WellFormed(documents'[d]))
          => /\ ingested' = ingested \o SelectSeq(documents', WellFormed)
             /\ Len(corpus') = Len(ingested')
             /\ \A i \in 1..Len(corpus') : corpus'[i] = ingested'[i].text
             /\ \A i \in (Len(corpus) + 1)..Len(corpus') : Searchable(i)'
             /\ ret' = RejectedIds(documents')]_vars

\* The provider answered a request of the call with a vector whose length is
\* not the collection's dimension.
OffDimensionAnswer ==
    \E r \in 1..Len(requests) :
        /\ requests[r].ok
        /\ \E j \in 1..Len(requests[r].data) : requests[r].data[j].dim # Dimension

\* C16: an insert during which the embedding of some chunk of the batch has
\* another length than the collection's dimension raises
\* DimensionMismatchError and leaves the collection as it was.
C16_OffDimensionBatchRejectedWhole ==
    [][(Runs("insert") /\ OffDimensionAnswer')
          => /\ status' = "raised"
             /\ error' = "DimensionMismatchError"
             /\ collection' = collection]_vars

\* The chunks an index holds, a chunk being its text and its source document.
SparseHeld == {<<corpus[i], metadata_list[i].source>> : i \in 1..Len(corpus)}

DenseHeld == {<<collection[i].text, collection[i].source>> : i \in 1..Len(collection)}

ChunksOf(docs) == {<<docs[d].text, docs[d].metadata.source>> : d \in 1..Len(docs)}

\* C19: when an ingestion of well-formed chunks into one index completes,
\* the other index holding these chunks already and the two agreeing on every
\* other chunk, both indexes hold the same set of chunks.
C19_IndexesHoldTheSameChunks ==
    [][(/\ \A d \in 1..Len(documents') : WellFormed(documents'[d])
        /\ \/ Runs("store_chunks") /\ SparseHeld = DenseHeld \cup ChunksOf(documents')
           \/ Runs("add_documents") /\ DenseHeld = SparseHeld \cup ChunksOf(documents'))
          => SparseHeld' = DenseHeld']_vars

\* A store_chunks whose embedding request failed returned False, and the
\* batch is in the sparse index only.
C19_SwallowedFailureReached ==
    /\ op = "store_chunks"
    /\ status = "returned"
    /\ ret = FALSE
    /\ error = "OpenAIError"
    /\ ChunksOf(documents) # {}
    /\ ChunksOf(documents) \subseteq SparseHeld
    /\ ChunksOf(documents) \cap DenseHeld = {}

(***************************************************************************)
(* Properties of the hybrid search under failure, checked under Spec       *)
(***************************************************************************)
ProviderFailed == \E r \in 1..Len(requests) : ~requests[r].ok

\* The result says of itself that it is degraded.
DegradedSignalled ==
    \A i \in 1..Len(ret) : "degraded" \in DOMAIN ret[i] /\ ret[i].degraded

\* C18: a hybrid search during which the embedding provider failed, the
\* sparse index holding documents, returns (it does not raise) a non-empty
\* result made of hits of the sparse index only, marked as degraded.
C18_ProviderFailureDegradesToSparse ==
    (op = "hybrid_search" /\ ProviderFailed /\ bm25 # None /\ corpus # <<>>) =>
        /\ status = "returned"
        /\ ret # <<>>
        /\ \A i \in 1..Len(ret) :
              \E j \in 1..Len(corpus) :
                  ret[i].text = corpus[j] /\ ret[i].metadata = metadata_list[j]
        /\ DegradedSignalled

(***************************************************************************)
(* Properties of a search concurrent with ingestion, checked under         *)
(* SpecConcurrent                                                          *)
(***************************************************************************)
\* The chunks the two index searches of a hybrid search showed it.
ObservedDense == {HitChunk(vector_results[i]) : i \in 1..Len(vector_results)}

ObservedSparse == {HitChunk(bm25_results[j]) : j \in 1..Len(bm25_results)}

\* Neither list was cut by the limit 2 * top_k: each shows its whole index.
NothingCutOff == Len(vector_results) < 2 * top_k /\ Len(bm25_results) < 2 * top_k

\* C20: a hybrid search that returns at a moment when both indexes hold
\* the same chunks, neither of its two lists cut by the limit, has seen
\* every chunk in both lists or in none, whatever ingestion ran beside it.
C20_QuerySeesChunkInBothIndexesOrNone ==
    [][(/\ op' = "hybrid_search" /\ status # "returned" /\ status' = "returned"
        /\ NothingCutOff'
        /\ SparseHeld' = DenseHeld')
          => ObservedDense' = ObservedSparse']_vars

(***************************************************************************)
(* The payload of the fused entries, checked under SpecFusion              *)
(***************************************************************************)
FirstOf(S) == CHOOSE i \in S : \A j \in S : i <= j

\* The hit whose payload the entry of this text takes: the first dense hit
\* of the text, or with no dense hit the first sparse one.
FirstHitOf(text) ==
    IF DenseHitsOf(text) # {}
    THEN vector_results[FirstOf(DenseHitsOf(text))]
    ELSE bm25_results[FirstOf(SparseHitsOf(text))]

\* The entry has the fields of the hit with their values, and rrf_score.
PayloadOf(entry, hit) ==
    /\ DOMAIN entry = DOMAIN hit \cup {"rrf_score"}
    /\ \A f \in DOMAIN hit : entry[f] = hit[f]

\* C30: every entry rrf_fusion returns has the fields of the first hit of its
\* text, the dense list scanned before the sparse one, plus rrf_score: the
\* dense hit's fields when the text is in both lists, the sparse hit's when
\* it is in the sparse list only.
C30_EntryCarriesFirstHitPayload ==
    FusionReturned =>
        \A n \in 1..Len(fused_results) :
            /\ DenseHitsOf(fused_results[n].text) \cup SparseHitsOf(fused_results[n].text) # {}
            /\ PayloadOf(fused_results[n], FirstHitOf(fused_results[n].text))

\* C30 witness: one entry is in both lists (and has the dense hit's source,
\* no metadata), another is in the sparse list only, after a second hit of
\* its text with another source.
C30_Witness ==
    /\ FusionReturned
    /\ \E n \in 1..Len(fused_results) :
          /\ DenseHitsOf(fused_results[n].text) # {}
          /\ SparseHitsOf(fused_results[n].text) # {}
          /\ "source" \in DOMAIN fused_results[n]
          /\ "metadata" \notin DOMAIN fused_results[n]
    /\ \E n \in 1..Len(fused_results) :
          /\ DenseHitsOf(fused_results[n].text) = {}
          /\ "metadata" \in DOMAIN fused_results[n]

(***************************************************************************)
(* Frame properties of the sparse index, checked under SpecIngest          *)
(***************************************************************************)
IsPrefix(old, new) ==
    /\ Len(old) <= Len(new)
    /\ \A i \in 1..Len(old) : new[i] = old[i]

\* C26: an add_documents call, returning or raising, leaves every entry the
\* index held (text, tokens and metadata, at its position) as it was and only
\* appends after them; a search call changes nothing in the index.
C26_CorpusIsAppendOnly ==
    [][/\ Runs("add_documents")
          => /\ IsPrefix(corpus, corpus')
             /\ IsPrefix(tokenized_corpus, tokenized_corpus')
             /\ IsPrefix(metadata_list, metadata_list')
       /\ Runs("bm25_search")
          => UNCHANGED <<corpus, tokenized_corpus, metadata_list, bm25>>]_vars

\* C26 witness: an add_documents on an index that held a document has
\* appended another text behind it.
C26_Witness ==
    /\ op = "add_documents"
    /\ status = "returned"
    /\ documents # <<>>
    /\ Len(corpus) > Len(documents)
    /\ corpus[1] # corpus[Len(corpus)]
    /\ Len(tokenized_corpus) = Len(corpus)

\* The lists of the retriever describe the same chunks position by position.
ListsAligned ==
    /\ Len(tokenized_corpus) = Len(corpus)
    /\ Len(metadata_list) = Len(corpus)
    /\ \A i \in 1..Len(corpus) :
          /\ corpus[i] = ingested[i].text
          /\ tokenized_corpus[i] = cut(corpus[i])
          /\ metadata_list[i] = ingested[i].metadata

\* The scoring index was built over the chunks the corpus holds now.
IndexCoversCorpus ==
    IF corpus = <<>> THEN bm25 = None
    ELSE bm25 # None /\ bm25.docs = [i \in 1..Len(corpus) |-> cut(corpus[i])]

\* Every hit of every search pairs a text with the score and the metadata
\* of one and the same position of the corpus.
HitsAreConsistent ==
    \A q \in Queries :
        LET hits == BM25Search(bm25, corpus, metadata_list, q, Len(corpus)).hits
        IN \A h \in 1..Len(hits) :
              \E i \in 1..Len(corpus) :
                  /\ hits[h].text = corpus[i]
                  /\ hits[h].metadata = ingested[i].metadata
                  /\ hits[h].score
                        = SumOver([t \in 1..Len(cut(q)) |->
                                      Occurrences(cut(q)[t], cut(corpus[i]))],
                                  1..Len(cut(q)))

\* C28: whenever no add_documents is running, also after calls that raised
\* part-way through a batch, corpus, tokenized_corpus and metadata_list have
\* the same length and describe the same chunk at each position, the scoring
\* index covers exactly these chunks, and no search pairs a chunk's text
\* with another chunk's score or metadata.
C28_ListsAlignedAndIndexed ==
    /\ ListsAligned
    /\ IndexCoversCorpus
    /\ HitsAreConsistent

\* The lists have different lengths after a call the tokenizer made raise.
C28_ListsOfDifferentLength ==
    /\ op = "add_documents"
    /\ status = "raised"
    /\ error = "AttributeError"
    /\ Len(tokenized_corpus) < Len(corpus)

\* A later add_documents has built the index over the shifted token lists:
\* a search returns a text with the score of another chunk.
C28_TextWithForeignScore ==
    /\ status = "idle"
    /\ bm25 # None
    /\ ~HitsAreConsistent

\* C29: store_chunks always returns and never raises: False for an empty
\* list (nothing stored), False when the embedding or the insertion failed,
\* True exactly when insert completed, the batch then being stored; when it
\* returns False after the embedding failed, the collection is as it was.
C29_StoreChunksNeverRaises ==
    [][Runs("store_chunks")
          => /\ status' = "returned"
             /\ ret' \in BOOLEAN
             /\ documents' = <<>> => (ret' = FALSE /\ collection' = collection)
             /\ error' # "none" => ret' = FALSE
             /\ ret' = TRUE
                   => /\ documents' # <<>>
                      /\ error' = "none"
                      /\ IsPrefix(collection, collection')
                      /\ Len(collection') = Len(collection) + Len(documents')
                      /\ \A d \in 1..Len(documents') :
                            collection'[Len(collection) + d].text = documents'[d].text
             /\ (ret' = FALSE /\ ProviderFailed') => collection' = collection]_vars

\* C29 witness: a store_chunks of a non-empty batch returned False after the
\* embedding request failed.
C29_Witness ==
    /\ op = "store_chunks"
    /\ status = "returned"
    /\ documents # <<>>
    /\ ProviderFailed
    /\ error = "OpenAIError"
    /\ ret = FALSE

(***************************************************************************)
(* Metadata of the hits, checked under Spec                                *)
(***************************************************************************)
\* The hit carries the whole metadata of an ingested chunk of its text.
CarriesMetadata(hit) ==
    /\ "metadata" \in DOMAIN hit
    /\ \E c \in IngestChunks : c.text = hit.text /\ hit.metadata = c.metadata

\* C25: every hit a sparse search returns, and every hit of the dense list,
\* of the sparse list and of the result of a hybrid search, carries exactly
\* the metadata its chunk was ingested with.
C25_MetadataPassedThrough ==
    /\ Bm25Returned => \A i \in 1..Len(ret) : CarriesMetadata(ret[i])
    /\ HybridReturned =>
          /\ \A i \in 1..Len(bm25_results) : CarriesMetadata(bm25_results[i])
          /\ \A i \in 1..Len(vector_results) : CarriesMetadata(vector_results[i])
          /\ \A i \in 1..Len(ret) : CarriesMetadata(ret[i])

\* The sparse half on its own: the hits of the sparse index carry the
\* metadata of their chunks.
C25_SparseHitsCarryMetadata ==
    /\ Bm25Returned => \A i \in 1..Len(ret) : CarriesMetadata(ret[i])
    /\ HybridReturned => \A i \in 1..Len(bm25_results) : CarriesMetadata(bm25_results[i])

(***************************************************************************)
(* Self-retrieval, checked under SpecSparse                                *)
(***************************************************************************)
\* The chunk at position i of the corpus is among the hits returned.
Returned(i) ==
    \E h \in 1..Len(ret) :
        ret[h].text = corpus[i] /\ ret[h].metadata = metadata_list[i]

\* C27: a search with top_k >= 1 whose query is the verbatim text of an
\* ingested chunk returns that chunk among its hits.
C27_ChunkFoundByItsOwnText ==
    (Bm25Returned /\ top_k >= 1) =>
        \A i \in 1..Len(corpus) : query = corpus[i] => Returned(i)

(***************************************************************************)
(* Identifiers of the stored chunks, checked under SpecIngest              *)
(***************************************************************************)
\* The entities at i and j of the collection store different chunks.
DifferentChunks(i, j) ==
    \/ collection[i].text # collection[j].text
    \/ collection[i].source # collection[j].source

\* No two different stored chunks carry the same chunk_id.
ChunkIdsUnique ==
    \A i \in 1..Len(collection), j \in 1..Len(collection) :
        DifferentChunks(i, j) => collection[i].chunk_id # collection[j].chunk_id

\* No two different stored chunks are stored under the same backend key.
BackendKeysUnique ==
    \A i \in 1..Len(collection), j \in 1..Len(collection) :
        DifferentChunks(i, j) => collection[i].id # collection[j].id

\* C24: after any sequence of ingestion calls no two stored chunks share an
\* identifier, neither the chunk_id of the chunking stage nor the backend key.
C24_StoredChunksHaveUniqueIds == ChunkIdsUnique /\ BackendKeysUnique

(***************************************************************************)
(* Progress of a hybrid search, checked under SpecLive                     *)
(***************************************************************************)
HybridCalled == op = "hybrid_search" /\ status = "called"

\* C23: a hybrid query that was called eventually returns, also when its
\* dense search never completes.
C23_QueryEventuallyReturns == HybridCalled ~> HybridReturned

\* While the dense search completes the query does return.
C23_ReturnsUnlessBlocked ==
    HybridCalled ~> (HybridReturned \/ status = "dense_blocked")

\* A query whose dense search never completes stays blocked for ever.
C23_BlockedForEver == [][status = "dense_blocked" => status' = "dense_blocked"]_vars

(***************************************************************************)
(* add_documents on several threads, checked under SpecThreads             *)
(***************************************************************************)
\* C21: when the add_documents calls of the threads have all completed, no
\* update is lost: the scoring index covers every chunk of the corpus, and
\* the text, the token list and the metadata at each position belong to the
\* same chunk.
C21_NoLostUpdate == NoAddRunning => (ListsAligned /\ IndexCoversCorpus)

\* The lists are aligned and the index is what the call that finished first
\* built: the assignment of the other call's index was overwritten.
C21_IndexOverwritten ==
    /\ NoAddRunning
    /\ ListsAligned
    /\ ~IndexCoversCorpus

\* The text of one chunk and the token list of another stand at the same
\* position.
C21_ListsInterleaved ==
    /\ NoAddRunning
    /\ \E i \in 1..Len(corpus) : tokenized_corpus[i] # cut(corpus[i])

\* C22: no search starts while an add_documents is in progress.
C22_NoSearchDuringAdd == [][Runs("bm25_search") => NoAddRunning]_vars

\* A search has returned hits scored by statistics that do not cover the
\* chunks already appended to the corpus.
C22_SearchSawPartialBatch ==
    /\ Bm25Returned
    /\ ~NoAddRunning
    /\ ~IndexCoversCorpus

====
